---------------------------- MODULE Spec2Model ----------------------------
(***************************************************************************)
(* A model of blazefl's FedAvg contribution (src/blazefl/contrib/fedavg.py):*)
(* the round coordinator FedAvgServerHandler, its weighted aggregation,    *)
(* and the serial and parallel client trainers.                            *)
(*                                                                         *)
(* The specifications share the module's variables:                        *)
(*   Spec      the coordinator as a state machine, one action per method;  *)
(*   SpecAgg   the static method aggregate applied to bounded inputs;      *)
(*   SpecExec  a client trainer, serial or parallel, the workers of the    *)
(*             parallel one taking the steps of process_client;            *)
(*   SpecDet   two independent runs of process_client on one envelope;     *)
(*   SpecRace  two callers of load whose statements interleave;            *)
(*   SpecLoop  the round loop over a coordinator and a serial trainer;     *)
(*   SpecFault the parallel trainer with tasks that fail.                  *)
(***************************************************************************)
EXTENDS Integers, Sequences, FiniteSets, TLC

VARIABLES
    \* ---- FedAvgServerHandler fields (fedavg.py:99-109)
    num_clients,            \* self.num_clients
    sample_ratio,           \* self.sample_ratio, a fraction <<p, q>>
    global_round,           \* self.global_round
    num_clients_per_round,  \* self.num_clients_per_round (the quota)
    round,                  \* self.round
    client_buffer_cache,    \* self.client_buffer_cache
    model,                  \* the parameter vector held by self.model
    \* ---- what the caller of the last coordinator method observed
    op,                     \* the method called last ("init" after construction)
    arg,                    \* the payload handed to the last load, <<>> otherwise
    ret,                    \* "true" / "false" returned, "raise" raised, "none"
    sampled,                \* the list returned by the last sample_clients
    downlink,               \* the parameters returned by the last downlink_package
    updArg,                 \* the buffer global_update was invoked with in the
                            \* last step, <<>> when it was not invoked
    pending,                \* history: packages accepted since the last
                            \* completed aggregation
    lastRound,              \* history: the packages of the round completed by
                            \* the last load, <<>> once another load was made
    \* ---- a call of the static method aggregate (SpecAgg)
    aggParams,              \* parameters_list
    aggWeights,             \* weights_list
    aggOut,                 \* its outcome, NotCalled before the call
    aggPerm,                \* the permutation applied for the second call
    aggOut2,                \* the outcome on the permuted lists
    \* ---- a client trainer, serial or parallel (SpecExec)
    kind,                   \* "serial" / "parallel": the trainer's class
    epochs,                 \* self.epochs
    seed,                   \* self.seed (parallel trainer)
    device,                 \* self.device
    num_parallels,          \* self.num_parallels (parallel trainer)
    cache,                  \* self.cache, a list of references into heap
    heap,                   \* the package objects allocated so far
    rngState,               \* the random state of the trainer's own process
    files,                  \* share_dir and state_dir: path -> content
    jobs,                   \* the tasks of the running parallel local_process
    eop,                    \* the trainer method called last
    drained,                \* the lists uplink_package returned, oldest first
    dispatched,             \* history: the last local_process call and the
                            \* number of calls made
    execHist,               \* history: per client, the number of completed
                            \* process_client executions and the random state
                            \* the last of them saved
    \* ---- callers of load running concurrently (SpecRace)
    threads,                \* per caller: its position in load and its locals
    raceHist,               \* history: loads started and completed, the
                            \* buffers aggregated, whether two calls overlapped
    \* ---- the round loop driving a coordinator and a trainer (SpecLoop)
    driver                  \* the loop's position and local variables

vars == <<num_clients, sample_ratio, global_round, num_clients_per_round,
          round, client_buffer_cache, model, op, arg, ret, sampled, downlink,
          updArg, pending, lastRound, aggParams, aggWeights, aggOut, aggPerm, aggOut2,
          kind, epochs, seed, device, num_parallels, cache, heap, rngState,
          files, jobs, eop, drained, dispatched, execHist, threads, raceHist,
          driver>>

coordVars == <<num_clients, sample_ratio, global_round, num_clients_per_round,
               round, client_buffer_cache, model, op, arg, ret, sampled,
               downlink, updArg, pending, lastRound>>

aggVars == <<aggParams, aggWeights, aggOut, aggPerm, aggOut2>>

execVars == <<kind, epochs, seed, device, num_parallels, cache, heap, rngState,
              files, jobs, eop, drained, dispatched, execHist>>

raceVars == <<threads, raceHist>>

-----------------------------------------------------------------------------
(* Bounds of the model.                                                    *)

\* Significant bits of the floating-point format (float32 has 24).
MantBits == 4
\* Longest parameters_list / weights_list handed to aggregate in SpecAgg.
MaxLen == 3
\* Largest num_clients a coordinator is constructed with.
MaxClients == 3
\* Largest global_round a coordinator is constructed with.
MaxGlobalRound == 1
\* load is explored while round < MaxRound.
MaxRound == 2
\* load is explored while the buffer holds fewer than MaxBuffer packages.
MaxBuffer == 3

\* Values of a serialized parameter, lengths of a serialized parameter
\* vector, and data sizes (weights) drawn as inputs of aggregate.
ParamValues == {1, 3}
ParamDims == {1, 2}
DataSizes == {0, 1, 2}

\* The sample ratios a coordinator is constructed with, as <<p, q>> for the
\* fraction p / q.
SampleRatios == {<<0, 1>>, <<1, 3>>, <<1, 2>>, <<2, 3>>, <<1, 1>>}

-----------------------------------------------------------------------------
(* Floating-point numbers: <<m, e>> stands for m * 2^e, with m odd (or     *)
(* <<0, 0>> for zero) and |m| < 2^MantBits.  Every operation rounds its    *)
(* exact result to the nearest such number, ties to the even mantissa, as  *)
(* IEEE-754 arithmetic does (torch's float32, without overflow/underflow). *)

Pow2(n) == IF n <= 0 THEN 1 ELSE 2 ^ n

Abs(x) == IF x < 0 THEN -x ELSE x

Sign(x) == IF x < 0 THEN -1 ELSE 1

NaN == <<0, -1>>

FZero == <<0, 0>>

IsNaN(x) == x = NaN

\* <<m, e>> with the trailing zero bits of m moved into the exponent.
RECURSIVE Norm(_, _)
Norm(m, e) ==
    IF m = 0 THEN FZero
    ELSE IF m % 2 = 0 THEN Norm(m \div 2, e + 1)
    ELSE <<m, e>>

RECURSIVE BitLen(_)
BitLen(n) == IF n = 0 THEN 0 ELSE 1 + BitLen(n \div 2)

\* The float nearest to (q + f) * 2^e0 for an integer q >= 0 and a fraction
\* 0 <= f < 1 of which only "sticky" (f > 0) is known: when q has more than
\* MantBits + 1 bits, or sticky is FALSE, that decides the rounding.
RoundInt(q, sticky, e0) ==
    LET d == BitLen(q) - MantBits
    IN  IF d <= 0 THEN Norm(q, e0)
        ELSE LET hi == q \div Pow2(d)
                 low == q % Pow2(d)
                 half == Pow2(d - 1)
                 up == IF low > half \/ (low = half /\ sticky) THEN 1
                       ELSE IF low = half THEN hi % 2
                       ELSE 0
             IN  Norm(hi + up, e0 + d)

\* The float nearest to a / b * 2^e0, for integers a >= 0 and b > 0.
RoundRat(a, b, e0) ==
    IF b = 1 THEN RoundInt(a, FALSE, e0)
    ELSE LET k == MantBits + 1 + BitLen(b)
         IN  RoundInt((a * Pow2(k)) \div b, (a * Pow2(k)) % b # 0, e0 - k)

\* An integer converted to a float (torch.tensor of ints entering a division,
\* or an integer-valued parameter).
ToFloat(n) ==
    LET r == RoundRat(Abs(n), 1, 0) IN <<Sign(n) * r[1], r[2]>>

FMul(x, y) ==
    IF IsNaN(x) \/ IsNaN(y) THEN NaN
    ELSE LET r == RoundRat(Abs(x[1]) * Abs(y[1]), 1, x[2] + y[2])
         IN  <<Sign(x[1]) * Sign(y[1]) * r[1], r[2]>>

FAdd(x, y) ==
    IF IsNaN(x) \/ IsNaN(y) THEN NaN
    ELSE LET lo == IF x[2] < y[2] THEN x[2] ELSE y[2]
             s == x[1] * Pow2(x[2] - lo) + y[1] * Pow2(y[2] - lo)
             r == RoundRat(Abs(s), 1, lo)
         IN  <<Sign(s) * r[1], r[2]>>

\* w / total for non-negative integers, as torch's true division of integer
\* tensors: both operands become floats; 0 / 0 is nan.
FDivInt(w, total) ==
    IF total = 0 THEN NaN
    ELSE LET a == ToFloat(w)
             b == ToFloat(total)
         IN  RoundRat(a[1] * (IF a[2] > b[2] THEN Pow2(a[2] - b[2]) ELSE 1),
                      b[1] * (IF b[2] > a[2] THEN Pow2(b[2] - a[2]) ELSE 1),
                      0)


-----------------------------------------------------------------------------
(* Tensors: a 1-D tensor is a sequence of floats, a 2-D tensor a sequence  *)
(* of rows.                                                                *)

(* The outcome of a call is a record: NotCalled before the call.           *)

NotCalled == [status |-> "none", val |-> <<>>]

Raised == [status |-> "raised", val |-> <<>>]

Returned(v) == [status |-> "returned", val |-> v]

Ok(outcome) == outcome.status = "returned"

\* All serialized parameter vectors / uplink packages drawn as inputs.
ParamVectors ==
    UNION {[1..d -> {ToFloat(v) : v \in ParamValues}] : d \in ParamDims}

FedAvgUplinkPackage ==
    [model_parameters : ParamVectors, data_size : DataSizes]

FedAvgDownlinkPackage(model_parameters) ==
    [model_parameters |-> model_parameters]

\* torch.stack(parameters_list, dim=-1): raises on an empty list and on
\* tensors of different shapes; otherwise out[j][i] = parameters_list[i][j].
torch_stack(parameters_list) ==
    IF parameters_list = <<>> THEN Raised
    ELSE IF \E i \in DOMAIN parameters_list :
                Len(parameters_list[i]) # Len(parameters_list[1]) THEN Raised
    ELSE Returned([j \in 1..Len(parameters_list[1]) |->
                      [i \in 1..Len(parameters_list) |-> parameters_list[i][j]]])

RECURSIVE SumInts(_)
SumInts(s) == IF s = <<>> THEN 0 ELSE s[1] + SumInts(Tail(s))

\* A slip: the weights divided by their number instead of their sum.
normalize_weights_by_count(weights_list) ==
    [i \in 1..Len(weights_list) |-> FDivInt(weights_list[i], Len(weights_list))]

\* weights / torch.sum(weights) for the integer tensor torch.tensor(weights_list).
normalize_weights(weights_list) ==
    [i \in 1..Len(weights_list) |-> FDivInt(weights_list[i], SumInts(weights_list))]

\* A slip: every column multiplied by the first weight.
broadcast_mul_first_weight(parameters, weights) ==
    IF weights = <<>> THEN Raised
    ELSE Returned([j \in DOMAIN parameters |->
                     [i \in DOMAIN parameters[j] |->
                        FMul(parameters[j][i], weights[1])]])

\* parameters * weights for a (P, n) tensor and an (m) tensor: torch
\* broadcasts the trailing dimension when n = m, n = 1 or m = 1 and raises
\* otherwise.
broadcast_mul(parameters, weights) ==
    LET n == Len(parameters[1])
        m == Len(weights)
    IN  IF n = m THEN
            Returned([j \in DOMAIN parameters |->
                        [i \in 1..n |-> FMul(parameters[j][i], weights[i])]])
        ELSE IF m = 1 THEN
            Returned([j \in DOMAIN parameters |->
                        [i \in 1..n |-> FMul(parameters[j][i], weights[1])]])
        ELSE IF n = 1 THEN
            Returned([j \in DOMAIN parameters |->
                        [i \in 1..m |-> FMul(parameters[j][1], weights[i])]])
        ELSE Raised

\* The sum of one row, accumulated from the left.
RECURSIVE SumRow(_, _)
SumRow(row, acc) ==
    IF row = <<>> THEN acc ELSE SumRow(Tail(row), FAdd(acc, row[1]))

\* torch.sum(t, dim=-1)
torch_sum_last(t) == [j \in DOMAIN t |-> SumRow(t[j], FZero)]

\* FedAvgServerHandler.aggregate (a static method).
aggregate(parameters_list, weights_list) ==
    LET parameters == torch_stack(parameters_list)
        weights == normalize_weights(weights_list)
    IN  IF ~Ok(parameters) THEN Raised
        ELSE LET prod == broadcast_mul(parameters.val, weights)
             IN  IF ~Ok(prod) THEN Raised
                 ELSE Returned(torch_sum_last(prod.val))

-----------------------------------------------------------------------------
(* The round coordinator, FedAvgServerHandler.                             *)

Package(values, size) ==
    [model_parameters |-> [i \in DOMAIN values |-> ToFloat(values[i])],
     data_size |-> size]

\* The uplink packages handed to load: two parameter shapes, distinct
\* values, and a package whose data_size is 0.
LoadPackages ==
    {Package(<<1>>, 1), Package(<<3>>, 2), Package(<<3>>, 0),
     Package(<<1, 3>>, 1)}

\* The parameters of the model select_model returns at construction.
InitialModel == <<ToFloat(0)>>

\* blazefl.utils.serialize_model: the model's parameters as one vector.
serialize_model(m) == m

\* blazefl.utils.deserialize_model: the vector replaces the model's
\* parameters in place.
deserialize_model(m, serialized_parameters) == serialized_parameters

\* int(self.num_clients * self.sample_ratio): truncation of the product.
quota_of(n, ratio) == (n * ratio[1]) \div ratio[2]

AggIdle ==
    /\ aggParams = <<>> /\ aggWeights = <<>> /\ aggOut = NotCalled
    /\ aggPerm = <<>> /\ aggOut2 = NotCalled

\* No client trainer constructed.
ExecIdle ==
    /\ kind = "none" /\ epochs = 0 /\ seed = 0 /\ device = "cpu"
    /\ num_parallels = 0 /\ cache = <<>> /\ heap = <<>> /\ rngState = 0
    /\ files = <<>> /\ jobs = <<>> /\ eop = <<"idle", "idle">>
    /\ drained = <<>> /\ dispatched = <<>> /\ execHist = <<>>

\* No round loop running.
DriverIdle == driver = <<>>

\* No concurrent callers of load.
RaceIdle ==
    /\ threads = <<>>
    /\ raceHist = <<>>

\* FedAvgServerHandler.__init__
Init ==
    /\ DriverIdle
    /\ num_clients \in 1..MaxClients
    /\ sample_ratio \in SampleRatios
    /\ global_round \in 1..MaxGlobalRound
    /\ model = InitialModel
    /\ client_buffer_cache = <<>>
    /\ num_clients_per_round = quota_of(num_clients, sample_ratio)
    /\ round = 0
    /\ op = "init" /\ arg = <<>> /\ ret = "none"
    /\ sampled = <<>> /\ downlink = <<>> /\ updArg = <<>>
    /\ pending = <<>> /\ lastRound = <<>>
    /\ AggIdle
    /\ ExecIdle
    /\ RaceIdle

\* A slip: a sample drawn with replacement.
random_sample_with_replacement(n, k) == [1..k -> 0..(n - 1)]

\* random.sample(range(n), k): every list of k distinct ids below n.
random_sample(n, k) ==
    {s \in [1..k -> 0..(n - 1)] : \A i, j \in 1..k : s[i] = s[j] => i = j}

\* A slip: the sample returned in the order it was drawn.
sorted_identity(s) == s

\* sorted(sampled_clients)
sorted(s) == SortSeq(s, LAMBDA a, b : a < b)

\* FedAvgServerHandler.sample_clients
sample_clients ==
    /\ \E s \in random_sample(num_clients, num_clients_per_round) :
          sampled' = sorted(s)
    /\ op' = "sample_clients" /\ arg' = <<>> /\ ret' = "none"
    /\ downlink' = <<>> /\ updArg' = <<>>
    /\ UNCHANGED <<num_clients, sample_ratio, global_round,
                   num_clients_per_round, round, client_buffer_cache, model,
                   pending, lastRound>>
    /\ UNCHANGED <<aggVars, execVars, raceVars>>

\* A slip: a strict comparison.
if_stop_value_strict(r, g) == r > g

\* The value if_stop returns: self.round >= self.global_round.
if_stop_value(r, g) == r >= g

\* FedAvgServerHandler.if_stop
if_stop ==
    /\ ret' = IF if_stop_value(round, global_round) THEN "true" ELSE "false"
    /\ op' = "if_stop" /\ arg' = <<>>
    /\ sampled' = <<>> /\ downlink' = <<>> /\ updArg' = <<>>
    /\ UNCHANGED <<num_clients, sample_ratio, global_round,
                   num_clients_per_round, round, client_buffer_cache, model,
                   pending, lastRound>>
    /\ UNCHANGED <<aggVars, execVars, raceVars>>

\* A slip: the data sizes ignored, every package weighted alike.
global_update_unweighted(buffer) ==
    LET parameters_list == [i \in DOMAIN buffer |-> buffer[i].model_parameters]
        weights_list == [i \in DOMAIN buffer |-> 1]
        serialized_parameters == aggregate(parameters_list, weights_list)
    IN  IF ~Ok(serialized_parameters) THEN Raised
        ELSE Returned(deserialize_model(model, serialized_parameters.val))

\* FedAvgServerHandler.global_update: the outcome is the model's new
\* parameter vector, or Raised when aggregate raises.
global_update(buffer) ==
    LET parameters_list == [i \in DOMAIN buffer |-> buffer[i].model_parameters]
        weights_list == [i \in DOMAIN buffer |-> buffer[i].data_size]
        serialized_parameters == aggregate(parameters_list, weights_list)
    IN  IF ~Ok(serialized_parameters) THEN Raised
        ELSE Returned(deserialize_model(model, serialized_parameters.val))

\* A slip: the quota test off by one.
quota_reached_early(buffer) == Len(buffer) + 1 = num_clients_per_round

\* A slip: the quota test as "at least".
quota_reached_at_least(buffer) == Len(buffer) >= num_clients_per_round

\* len(self.client_buffer_cache) == self.num_clients_per_round
quota_reached(buffer) == Len(buffer) = num_clients_per_round

\* FedAvgServerHandler.load
load(payload) ==
    /\ round < MaxRound
    /\ Len(client_buffer_cache) < MaxBuffer
    /\ LET appended == Append(client_buffer_cache, payload)
       IN  IF quota_reached(appended)
           THEN LET updated == global_update(appended)
                IN  /\ updArg' = appended
                    /\ IF Ok(updated)
                       THEN /\ model' = updated.val
                            /\ round' = round + 1
                            /\ client_buffer_cache' = <<>>
                            /\ ret' = "true"
                            /\ pending' = <<>>
                            /\ lastRound' = Append(pending, payload)
                       ELSE /\ client_buffer_cache' = appended
                            /\ ret' = "raise"
                            /\ pending' = Append(pending, payload)
                            /\ lastRound' = <<>>
                            /\ UNCHANGED <<model, round>>
           ELSE /\ client_buffer_cache' = appended
                /\ ret' = "false"
                /\ updArg' = <<>>
                /\ pending' = Append(pending, payload)
                /\ lastRound' = <<>>
                /\ UNCHANGED <<model, round>>
    /\ op' = "load" /\ arg' = payload
    /\ sampled' = <<>> /\ downlink' = <<>>
    /\ UNCHANGED <<num_clients, sample_ratio, global_round,
                   num_clients_per_round>>
    /\ UNCHANGED <<aggVars, execVars, raceVars>>

\* FedAvgServerHandler.get_summary: evaluates the model on the test set;
\* the loss and accuracy it reports are the evaluation routine's.
get_summary ==
    /\ op' = "get_summary" /\ arg' = <<>> /\ ret' = "none"
    /\ sampled' = <<>> /\ downlink' = <<>> /\ updArg' = <<>>
    /\ UNCHANGED <<num_clients, sample_ratio, global_round,
                   num_clients_per_round, round, client_buffer_cache, model,
                   pending, lastRound>>
    /\ UNCHANGED <<aggVars, execVars, raceVars>>

\* FedAvgServerHandler.downlink_package
downlink_package ==
    /\ downlink' = FedAvgDownlinkPackage(serialize_model(model)).model_parameters
    /\ op' = "downlink_package" /\ arg' = <<>> /\ ret' = "none"
    /\ sampled' = <<>> /\ updArg' = <<>>
    /\ UNCHANGED <<num_clients, sample_ratio, global_round,
                   num_clients_per_round, round, client_buffer_cache, model,
                   pending, lastRound>>
    /\ UNCHANGED <<aggVars, execVars, raceVars>>

Next ==
    \/ sample_clients /\ UNCHANGED driver
    \/ if_stop /\ UNCHANGED driver
    \/ \E payload \in LoadPackages : load(payload) /\ UNCHANGED driver
    \/ get_summary /\ UNCHANGED driver
    \/ downlink_package /\ UNCHANGED driver

Spec == Init /\ [][Next]_vars

-----------------------------------------------------------------------------
(* SpecAgg: aggregate applied to inputs drawn from bounded sets; when it   *)
(* returned for lists of equal length, it is applied again to both lists   *)
(* permuted the same way.                                                  *)

SeqsUpTo(S, n) == UNION {[1..k -> S] : k \in 0..n}

ListPermutations(n) == {f \in [1..n -> 1..n] : \A i, j \in 1..n : f[i] = f[j] => i = j}

Permuted(s, f) == [i \in DOMAIN s |-> s[f[i]]]

CoordIdle ==
    /\ num_clients = 0 /\ sample_ratio = <<0, 1>> /\ global_round = 0
    /\ num_clients_per_round = 0 /\ round = 0 /\ client_buffer_cache = <<>>
    /\ model = <<>> /\ op = "idle" /\ arg = <<>> /\ ret = "none"
    /\ sampled = <<>> /\ downlink = <<>> /\ updArg = <<>> /\ pending = <<>>
    /\ lastRound = <<>>

InitAgg ==
    /\ DriverIdle
    /\ CoordIdle
    /\ ExecIdle
    /\ RaceIdle
    /\ aggParams \in SeqsUpTo(ParamVectors, MaxLen)
    /\ aggWeights \in SeqsUpTo(DataSizes, MaxLen)
    /\ aggOut = NotCalled
    /\ aggPerm = <<>>
    /\ aggOut2 = NotCalled

AggregateCall ==
    /\ aggOut = NotCalled
    /\ aggOut' = aggregate(aggParams, aggWeights)
    /\ UNCHANGED <<aggParams, aggWeights, aggPerm, aggOut2>>
    /\ UNCHANGED <<coordVars, execVars, raceVars>>

AggregatePermutedCall ==
    /\ Ok(aggOut)
    /\ aggOut2 = NotCalled
    /\ Len(aggParams) = Len(aggWeights)
    /\ \E f \in ListPermutations(Len(aggParams)) :
          /\ aggPerm' = f
          /\ aggOut2' = aggregate(Permuted(aggParams, f), Permuted(aggWeights, f))
    /\ UNCHANGED <<aggParams, aggWeights, aggOut>>
    /\ UNCHANGED <<coordVars, execVars, raceVars>>

NextAgg ==
    \/ AggregateCall /\ UNCHANGED driver
    \/ AggregatePermutedCall /\ UNCHANGED driver

SpecAgg == InitAgg /\ [][NextAgg]_vars

-----------------------------------------------------------------------------
(* The client trainers, FedAvgSerialClientTrainer and                      *)
(* FedAvgParallelClientTrainer (SpecExec).  The local training routine and *)
(* the evaluation routine are external: they are modelled as deterministic *)
(* functions of the parameters, the client's data and the random state.    *)

\* Longest cid_list handed to local_process.
MaxCids == 2
\* Client tasks (packages trained) in one run.
MaxTasks == 2
\* Calls of local_process in one run.
MaxDispatch == 2
\* Calls of uplink_package in one run.
MaxDrains == 2

\* Client ids of the federation, and the number of training samples of
\* each client's partition (client 2 holds an empty partition).
ExecClientIds == 0..2
TrainSamples == <<2, 1, 0>>
\* Serialized parameters (abstract), random-generator states, epochs
\* settings, seeds and devices a trainer is constructed with.
ExecParams == 0..3
RngValues == 0..3
EpochChoices == {0, 1, 2}
Seeds == {0, 1}
Devices == {"cpu", "cuda"}
\* The downlink payloads handed to local_process.
ExecPayloads == {0, 1}

\* metadata: dict[str, float] | None
NoMetadata == [present |-> FALSE, loss |-> 0, acc |-> 0]

Metadata(loss, acc) == [present |-> TRUE, loss |-> loss, acc |-> acc]

\* FedAvgUplinkPackage(model_parameters, data_size), metadata None.
UplinkPackage(model_parameters, data_size) ==
    [model_parameters |-> model_parameters, data_size |-> data_size,
     metadata |-> NoMetadata]

\* One draw from a random generator.
NextRng(r) == (r + 1) % Cardinality(RngValues)

\* A slip: the seed is not applied, the process keeps the random state it
\* happened to have.
seed_everything_noop(ambient, s, dev) == ambient

\* blazefl.utils.seed_everything(seed, device): the random state is a
\* function of the seed and the device alone.
seed_everything(ambient, s, dev) ==
    (2 * s + (IF dev = "cuda" THEN 1 ELSE 0)) % Cardinality(RngValues)

\* The loop "for _ in range(epochs): for data, target in train_loader":
\* every epoch draws the batch order from the random generator, updates
\* the parameters and adds the partition's samples to data_size.
RECURSIVE train_epochs(_, _, _, _, _)
train_epochs(params, data_size, rng, cid, n) ==
    IF n <= 0 THEN [params |-> params, data_size |-> data_size, rng |-> rng]
    ELSE IF TrainSamples[cid + 1] = 0
         THEN train_epochs(params, data_size, rng, cid, n - 1)
         ELSE train_epochs((params + cid + 1 + rng) % Cardinality(ExecParams),
                           data_size + TrainSamples[cid + 1], NextRng(rng),
                           cid, n - 1)

\* FedAvgSerialClientTrainer.train
serial_train(model_parameters, cid, rng) ==
    LET r == train_epochs(model_parameters, 0, rng, cid, epochs)
    IN  [package |-> UplinkPackage(r.params, r.data_size), rng |-> r.rng]

\* FedAvgSerialClientTrainer.evaluate on a validation split that holds
\* samples: the loss and accuracy of the model just trained.
evaluate(params, cid) == <<(params + cid) % 2, (params + 1) % 2>>

\* FedAvgParallelClientTrainer.train
parallel_train(model_parameters, cid, rng, n) ==
    LET r == train_epochs(model_parameters, 0, rng, cid, n)
    IN  [package |-> UplinkPackage(r.params, r.data_size), rng |-> r.rng]

\* A slip: the first client of the list skipped.
iteration_order_skip_first(cid_list) ==
    IF cid_list = <<>> THEN <<>> ELSE Tail(cid_list)

\* A slip: the clients processed in ascending order of their ids.
iteration_order_sorted(cid_list) == SortSeq(cid_list, LAMBDA a, b : a < b)

\* "for cid in tqdm(cid_list, ...)": the order of the list.
iteration_order(cid_list) == cid_list

\* The body of the loop of FedAvgSerialClientTrainer.local_process, from
\* the i-th client on: the packages appended and the random state left.
RECURSIVE serial_loop(_, _, _, _, _)
serial_loop(model_parameters, cids, i, rng, packs) ==
    IF i > Len(cids) THEN [packs |-> packs, rng |-> rng]
    ELSE LET cid == cids[i]
             t == serial_train(model_parameters, cid, rng)
             m == evaluate(t.package.model_parameters, cid)
             pack == [t.package EXCEPT !.metadata = Metadata(m[1], m[2])]
         IN  serial_loop(model_parameters, cids, i + 1, t.rng,
                         Append(packs, pack))

Absent == [type |-> "absent", val |-> <<>>]

EnvelopeFile(data) == [type |-> "envelope", val |-> data]

PackageFile(package) == [type |-> "package", val |-> package]

StateFile(state) == [type |-> "state", val |-> state]

\* share_dir.joinpath(f"{cid}.pkl"), the envelope path of a client.
share_path(cid) == <<"share", cid>>

\* A slip: one snapshot file for every client.
state_path_shared(cid) == <<"state", 0>>

\* self.state_dir.joinpath(f"{cid}.pt")
state_path(cid) == <<"state", cid>>

Paths == {share_path(c) : c \in ExecClientIds} \cup {state_path(c) : c \in ExecClientIds}

\* FedAvgParallelClientTrainer.get_shared_data
get_shared_data(cid, payload) ==
    [epochs |-> epochs, cid |-> cid, seed |-> seed, payload |-> payload,
     state_path |-> state_path(cid)]

\* The lists sample_clients can return in a federation of the clients
\* ExecClientIds, for quotas up to MaxCids.
SampledLists ==
    {sorted(s) : s \in UNION {random_sample(Cardinality(ExecClientIds), k) :
                               k \in 0..MaxCids}}

\* Every cid_list of at most MaxCids ids, in any order.
CidLists == UNION {[1..k -> ExecClientIds] : k \in 0..MaxCids}

NoHist == [count |-> 0, snap |-> 0]

\* A trainer just constructed: FedAvgSerialClientTrainer.__init__ or
\* FedAvgParallelClientTrainer.__init__ on an empty share_dir / state_dir.
\* The random state of the trainer's process is whatever it happens to be.
InitExec ==
    /\ DriverIdle
    /\ CoordIdle
    /\ AggIdle
    /\ RaceIdle
    /\ kind \in {"serial", "parallel"}
    /\ epochs \in EpochChoices
    /\ device \in (IF kind = "parallel" THEN Devices ELSE {"cpu"})
    /\ seed \in (IF kind = "parallel" THEN Seeds ELSE {0})
    /\ num_parallels \in (IF kind = "parallel" THEN {1, 2} ELSE {0})
    /\ rngState \in (IF kind = "serial" THEN RngValues ELSE {0})
    /\ cache = <<>>
    /\ heap = <<>>
    /\ files = [p \in Paths |-> Absent]
    /\ jobs = <<>>
    /\ eop = <<"init", "init">>
    /\ drained = <<>>
    /\ dispatched = [n |-> 0, tasks |-> 0, payload |-> 0, cid_list |-> <<>>,
                     onEmpty |-> TRUE]
    /\ execHist = [c \in ExecClientIds |-> NoHist]

\* The references of n objects allocated after those of h.
NewRefs(h, n) == [i \in 1..n |-> Len(h) + i]

Called(name) == <<eop[2], name>>

\* FedAvgSerialClientTrainer.local_process
local_process(payload, cid_list) ==
    /\ kind = "serial"
    /\ dispatched.n < MaxDispatch
    /\ dispatched.tasks + Len(cid_list) <= MaxTasks
    /\ LET r == serial_loop(payload, iteration_order(cid_list), 1, rngState, <<>>)
       IN  /\ heap' = heap \o r.packs
           /\ cache' = cache \o NewRefs(heap, Len(r.packs))
           /\ rngState' = r.rng
    /\ dispatched' = [n |-> dispatched.n + 1,
                      tasks |-> dispatched.tasks + Len(cid_list),
                      payload |-> payload, cid_list |-> cid_list,
                      onEmpty |-> cache = <<>>]
    /\ eop' = Called("local_process")
    /\ UNCHANGED <<kind, epochs, seed, device, num_parallels, files, jobs,
                   drained, execHist>>
    /\ UNCHANGED <<coordVars, aggVars, raceVars>>

\* deepcopy(self.cache): a new list of new package objects, equal in value.
deepcopy(c) == [i \in DOMAIN c |-> heap[c[i]]]

\* A slip: the cache is not replaced.
cache_after_drain_kept(c) == c

\* self.cache = []
cache_after_drain(c) == <<>>

\* FedAvgSerialClientTrainer.uplink_package and
\* FedAvgParallelClientTrainer.uplink_package (the same code)
uplink_package ==
    /\ kind \in {"serial", "parallel"}
    /\ jobs = <<>>
    /\ Len(drained) < MaxDrains
    /\ LET package == deepcopy(cache)
       IN  /\ heap' = heap \o package
           /\ drained' = Append(drained, NewRefs(heap, Len(package)))
    /\ cache' = cache_after_drain(cache)
    /\ eop' = Called("uplink_package")
    /\ UNCHANGED <<kind, epochs, seed, device, num_parallels, rngState, files,
                   jobs, dispatched, execHist>>
    /\ UNCHANGED <<coordVars, aggVars, raceVars>>

\* A task handed to the worker pool: process_client(path, device) with its
\* position, the envelope it loaded (data), the random state of its
\* worker process, the package it trained, and the file operations it has
\* made so far.
Job(cid) ==
    [cid |-> cid, path |-> share_path(cid), pc |-> "queued", data |-> <<>>,
     rng |-> 0, package |-> <<>>, ops |-> <<>>, ret |-> <<>>]

Running(i) == jobs[i].pc \notin {"queued", "done", "failed"}

\* ParallelClientTrainer.local_process, first half: for every client the
\* envelope is built by get_shared_data, saved at the client's path in
\* share_dir and handed to the pool.
parallel_dispatch(payload, cid_list) ==
    /\ kind = "parallel"
    /\ jobs = <<>>
    /\ cid_list # <<>>
    /\ dispatched.n < MaxDispatch
    /\ dispatched.tasks + Len(cid_list) <= MaxTasks
    /\ files' = [p \in Paths |->
                   IF \E i \in DOMAIN cid_list : p = share_path(cid_list[i])
                   THEN LET i == CHOOSE k \in DOMAIN cid_list :
                                   /\ p = share_path(cid_list[k])
                                   /\ \A l \in DOMAIN cid_list :
                                        p = share_path(cid_list[l]) => l <= k
                        IN  EnvelopeFile(get_shared_data(cid_list[i], payload))
                   ELSE files[p]]
    /\ jobs' = [i \in DOMAIN cid_list |-> Job(cid_list[i])]
    /\ dispatched' = [n |-> dispatched.n + 1,
                      tasks |-> dispatched.tasks + Len(cid_list),
                      payload |-> payload, cid_list |-> cid_list,
                      onEmpty |-> cache = <<>>]
    /\ eop' = Called("local_process")
    /\ UNCHANGED <<kind, epochs, seed, device, num_parallels, cache, heap,
                   rngState, drained, execHist>>
    /\ UNCHANGED <<coordVars, aggVars, raceVars>>

\* process_client, "data = torch.load(path)": a free worker of the pool
\* takes the task.
process_client_load(i) ==
    /\ jobs[i].pc = "queued"
    /\ Cardinality({j \in DOMAIN jobs : Running(j)}) < num_parallels
    /\ files[jobs[i].path].type = "envelope"
    /\ jobs' = [jobs EXCEPT ![i] =
                  [@ EXCEPT !.pc = "loaded",
                            !.data = files[jobs[i].path].val,
                            !.ops = Append(@, <<"read", jobs[i].path>>)]]
    /\ UNCHANGED <<kind, epochs, seed, device, num_parallels, cache, heap,
                   rngState, files, eop, drained, dispatched, execHist>>
    /\ UNCHANGED <<coordVars, aggVars, raceVars>>

\* process_client, "if data.state_path.exists(): ... else: ...": the
\* snapshot is restored, or the random state is seeded; until then the
\* worker process has whatever random state it happens to have (ambient).
process_client_random(i) ==
    /\ jobs[i].pc = "loaded"
    /\ \E ambient \in RngValues :
          LET data == jobs[i].data
              exists == files[data.state_path].type = "state"
          IN  jobs' = [jobs EXCEPT ![i] =
                         [@ EXCEPT !.pc = "seeded",
                                   !.rng = IF exists
                                           THEN files[data.state_path].val
                                           ELSE seed_everything(ambient, data.seed, device),
                                   !.ops = IF exists
                                           THEN Append(@, <<"read", data.state_path>>)
                                           ELSE Append(@, <<"seed", data.seed>>)]]
    /\ UNCHANGED <<kind, epochs, seed, device, num_parallels, cache, heap,
                   rngState, files, eop, drained, dispatched, execHist>>
    /\ UNCHANGED <<coordVars, aggVars, raceVars>>

\* process_client, the model selected and trained.
process_client_train(i) ==
    /\ jobs[i].pc = "seeded"
    /\ LET data == jobs[i].data
           t == parallel_train(data.payload, data.cid, jobs[i].rng, data.epochs)
       IN  jobs' = [jobs EXCEPT ![i] =
                      [@ EXCEPT !.pc = "trained",
                                !.package = t.package,
                                !.rng = t.rng,
                                !.ops = Append(@, <<"train", data.cid>>)]]
    /\ UNCHANGED <<kind, epochs, seed, device, num_parallels, cache, heap,
                   rngState, files, eop, drained, dispatched, execHist>>
    /\ UNCHANGED <<coordVars, aggVars, raceVars>>

\* A slip: the package is not written.
torch_save_skipped(f, path, content) == f

\* torch.save(obj, path): the file at path is overwritten.
torch_save(f, path, content) == [f EXCEPT ![path] = content]

\* process_client, "torch.save(package, path)"
process_client_save_package(i) ==
    /\ jobs[i].pc = "trained"
    /\ files' = torch_save(files, jobs[i].path, PackageFile(jobs[i].package))
    /\ jobs' = [jobs EXCEPT ![i] =
                  [@ EXCEPT !.pc = "saved",
                            !.ops = Append(@, <<"write", jobs[i].path>>)]]
    /\ UNCHANGED <<kind, epochs, seed, device, num_parallels, cache, heap,
                   rngState, eop, drained, dispatched, execHist>>
    /\ UNCHANGED <<coordVars, aggVars, raceVars>>

\* process_client, "torch.save(RandomState.get_random_state(device),
\* data.state_path)" and "return path"
process_client_save_state(i) ==
    /\ jobs[i].pc = "saved"
    /\ files' = torch_save(files, jobs[i].data.state_path, StateFile(jobs[i].rng))
    /\ jobs' = [jobs EXCEPT ![i] =
                  [@ EXCEPT !.pc = "done",
                            !.ops = Append(@, <<"write", jobs[i].data.state_path>>),
                            !.ret = jobs[i].path]]
    /\ execHist' = [execHist EXCEPT ![jobs[i].data.cid] =
                      [count |-> @.count + 1, snap |-> jobs[i].rng]]
    /\ UNCHANGED <<kind, epochs, seed, device, num_parallels, cache, heap,
                   rngState, eop, drained, dispatched>>
    /\ UNCHANGED <<coordVars, aggVars, raceVars>>

\* ParallelClientTrainer.local_process, second half: when every task of
\* the batch has completed, the package at each returned path is loaded
\* and appended to the cache, in dispatch order.
parallel_collect ==
    /\ kind = "parallel"
    /\ jobs # <<>>
    /\ \A i \in DOMAIN jobs : jobs[i].pc = "done"
    /\ heap' = heap \o [i \in DOMAIN jobs |-> files[jobs[i].ret].val]
    /\ cache' = cache \o NewRefs(heap, Len(jobs))
    /\ jobs' = <<>>
    /\ UNCHANGED <<kind, epochs, seed, device, num_parallels, rngState, files,
                   eop, drained, dispatched, execHist>>
    /\ UNCHANGED <<coordVars, aggVars, raceVars>>

NextExec ==
    \/ \E payload \in ExecPayloads, cid_list \in CidLists :
          local_process(payload, cid_list) /\ UNCHANGED driver
    \/ uplink_package /\ UNCHANGED driver
    \/ \E payload \in ExecPayloads, cid_list \in SampledLists :
          parallel_dispatch(payload, cid_list) /\ UNCHANGED driver
    \/ \E i \in DOMAIN jobs : process_client_load(i) /\ UNCHANGED driver
    \/ \E i \in DOMAIN jobs : process_client_random(i) /\ UNCHANGED driver
    \/ \E i \in DOMAIN jobs : process_client_train(i) /\ UNCHANGED driver
    \/ \E i \in DOMAIN jobs : process_client_save_package(i) /\ UNCHANGED driver
    \/ \E i \in DOMAIN jobs : process_client_save_state(i) /\ UNCHANGED driver
    \/ parallel_collect /\ UNCHANGED driver

SpecExec == InitExec /\ [][NextExec]_vars

-----------------------------------------------------------------------------
(* SpecDet: two independent runs of process_client for the same client,    *)
(* started from the same envelope contents on the same device, each with   *)
(* its own share and state directory, neither holding a snapshot.  The     *)
(* two worker processes start with unrelated random states.                *)

RunPath(run, cid) == IF run = 1 THEN share_path(cid) ELSE <<"share2", cid>>

RunStatePath(run, cid) == IF run = 1 THEN state_path(cid) ELSE <<"state2", cid>>

InitDet ==
    /\ DriverIdle
    /\ CoordIdle
    /\ AggIdle
    /\ RaceIdle
    /\ kind = "parallel"
    /\ epochs \in EpochChoices
    /\ device \in Devices
    /\ seed \in Seeds
    /\ num_parallels = 2
    /\ rngState = 0
    /\ cache = <<>>
    /\ heap = <<>>
    /\ eop = <<"init", "local_process">>
    /\ drained = <<>>
    /\ execHist = [c \in ExecClientIds |-> NoHist]
    /\ \E cid \in ExecClientIds, payload \in ExecPayloads :
          /\ dispatched = [n |-> 1, tasks |-> 2, payload |-> payload,
                           cid_list |-> <<cid>>, onEmpty |-> TRUE]
          /\ jobs = [run \in 1..2 |-> [Job(cid) EXCEPT !.path = RunPath(run, cid)]]
          /\ files = [p \in {RunPath(run, cid) : run \in 1..2}
                            \cup {RunStatePath(run, cid) : run \in 1..2} |->
                        IF \E run \in 1..2 : p = RunPath(run, cid)
                        THEN EnvelopeFile(
                               [get_shared_data(cid, payload) EXCEPT
                                  !.state_path =
                                     RunStatePath(CHOOSE run \in 1..2 : p = RunPath(run, cid), cid)])
                        ELSE Absent]

NextDet ==
    \/ \E i \in DOMAIN jobs : process_client_load(i) /\ UNCHANGED driver
    \/ \E i \in DOMAIN jobs : process_client_random(i) /\ UNCHANGED driver
    \/ \E i \in DOMAIN jobs : process_client_train(i) /\ UNCHANGED driver
    \/ \E i \in DOMAIN jobs : process_client_save_package(i) /\ UNCHANGED driver
    \/ \E i \in DOMAIN jobs : process_client_save_state(i) /\ UNCHANGED driver

SpecDet == InitDet /\ [][NextDet]_vars

-----------------------------------------------------------------------------
(* SpecRace: two callers of FedAvgServerHandler.load whose statements      *)
(* interleave.  A coordinator with a positive quota is shared; every load  *)
(* brings a package of the same shape, told apart by its data_size.        *)

\* Loads started in one run.
MaxRaceLoads == 3

\* The weights global_update takes from a buffer.
DataSizesOfBuffer(buffer) == [i \in DOMAIN buffer |-> buffer[i].data_size]

Callers == 1..2

\* The package of the n-th load started.
RacePackage(n) == Package(<<1>>, n)

IdleCaller == [pc |-> "idle", r |-> 0]

InitRace ==
    /\ DriverIdle
    /\ num_clients \in 1..MaxClients
    /\ sample_ratio \in SampleRatios
    /\ global_round \in 1..MaxGlobalRound
    /\ model = InitialModel
    /\ client_buffer_cache = <<>>
    /\ num_clients_per_round = quota_of(num_clients, sample_ratio)
    /\ num_clients_per_round >= 1
    /\ round = 0
    /\ op = "init" /\ arg = <<>> /\ ret = "none"
    /\ sampled = <<>> /\ downlink = <<>> /\ updArg = <<>>
    /\ pending = <<>> /\ lastRound = <<>>
    /\ AggIdle
    /\ ExecIdle
    /\ threads = [t \in Callers |-> IdleCaller]
    /\ raceHist = [started |-> 0, completed |-> 0, aggregated |-> <<>>,
                   overlapped |-> FALSE]

\* Two callers are inside load at once.
Overlap(th) == \A t \in Callers : th[t].pc # "idle"

Moved(t, pc, r) == [threads EXCEPT ![t] = [pc |-> pc, r |-> r]]

Noted(th, started, completed, aggregated) ==
    [started |-> started, completed |-> completed, aggregated |-> aggregated,
     overlapped |-> raceHist.overlapped \/ Overlap(th)]

\* load, "self.client_buffer_cache.append(payload)"
load_append(t) ==
    /\ threads[t].pc = "idle"
    /\ raceHist.started < MaxRaceLoads
    /\ client_buffer_cache' =
          Append(client_buffer_cache, RacePackage(raceHist.started + 1))
    /\ threads' = Moved(t, "appended", 0)
    /\ raceHist' = Noted(threads', raceHist.started + 1, raceHist.completed,
                         raceHist.aggregated)
    /\ UNCHANGED <<num_clients, sample_ratio, global_round,
                   num_clients_per_round, round, model, op, arg, ret, sampled,
                   downlink, updArg, pending, lastRound>>
    /\ UNCHANGED <<aggVars, execVars>>

\* load, "if len(self.client_buffer_cache) == self.num_clients_per_round",
\* and "return False" when it is not
load_check(t) ==
    /\ threads[t].pc = "appended"
    /\ IF quota_reached(client_buffer_cache)
       THEN /\ threads' = Moved(t, "reached", 0)
            /\ raceHist' = Noted(threads', raceHist.started, raceHist.completed,
                                 raceHist.aggregated)
       ELSE /\ threads' = Moved(t, "idle", 0)
            /\ raceHist' = Noted(threads', raceHist.started,
                                 raceHist.completed + 1, raceHist.aggregated)
    /\ UNCHANGED <<coordVars, aggVars, execVars>>

\* load, "self.global_update(self.client_buffer_cache)"
load_global_update(t) ==
    /\ threads[t].pc = "reached"
    /\ LET updated == global_update(client_buffer_cache)
       IN  IF Ok(updated)
           THEN /\ model' = updated.val
                /\ threads' = Moved(t, "updated", 0)
                /\ raceHist' = Noted(threads', raceHist.started, raceHist.completed,
                                     Append(raceHist.aggregated,
                                            DataSizesOfBuffer(client_buffer_cache)))
           ELSE /\ threads' = Moved(t, "idle", 0)
                /\ raceHist' = Noted(threads', raceHist.started,
                                     raceHist.completed + 1, raceHist.aggregated)
                /\ UNCHANGED model
    /\ UNCHANGED <<num_clients, sample_ratio, global_round,
                   num_clients_per_round, round, client_buffer_cache, op, arg,
                   ret, sampled, downlink, updArg, pending, lastRound>>
    /\ UNCHANGED <<aggVars, execVars>>

\* load, "self.round += 1", the read of self.round
load_round_read(t) ==
    /\ threads[t].pc = "updated"
    /\ threads' = Moved(t, "read", round)
    /\ raceHist' = Noted(threads', raceHist.started, raceHist.completed,
                         raceHist.aggregated)
    /\ UNCHANGED <<coordVars, aggVars, execVars>>

\* load, "self.round += 1", the write of self.round
load_round_write(t) ==
    /\ threads[t].pc = "read"
    /\ round' = threads[t].r + 1
    /\ threads' = Moved(t, "incremented", 0)
    /\ raceHist' = Noted(threads', raceHist.started, raceHist.completed,
                         raceHist.aggregated)
    /\ UNCHANGED <<num_clients, sample_ratio, global_round,
                   num_clients_per_round, client_buffer_cache, model, op, arg,
                   ret, sampled, downlink, updArg, pending, lastRound>>
    /\ UNCHANGED <<aggVars, execVars>>

\* A slip: the buffer is not reset.
buffer_after_round_kept(buffer) == buffer

\* "self.client_buffer_cache = []"
buffer_after_round(buffer) == <<>>

\* load, "self.client_buffer_cache = []" and "return True"
load_clear(t) ==
    /\ threads[t].pc = "incremented"
    /\ client_buffer_cache' = buffer_after_round(client_buffer_cache)
    /\ threads' = Moved(t, "idle", 0)
    /\ raceHist' = Noted(threads', raceHist.started, raceHist.completed + 1,
                         raceHist.aggregated)
    /\ UNCHANGED <<num_clients, sample_ratio, global_round,
                   num_clients_per_round, round, model, op, arg, ret, sampled,
                   downlink, updArg, pending, lastRound>>
    /\ UNCHANGED <<aggVars, execVars>>

NextRace ==
    \/ \E t \in Callers : load_append(t) /\ UNCHANGED driver
    \/ \E t \in Callers : load_check(t) /\ UNCHANGED driver
    \/ \E t \in Callers : load_global_update(t) /\ UNCHANGED driver
    \/ \E t \in Callers : load_round_read(t) /\ UNCHANGED driver
    \/ \E t \in Callers : load_round_write(t) /\ UNCHANGED driver
    \/ \E t \in Callers : load_clear(t) /\ UNCHANGED driver

SpecRace == InitRace /\ [][NextRace]_vars

-----------------------------------------------------------------------------
(* SpecLoop: the standard round loop over a coordinator and a serial       *)
(* trainer of the same federation:                                         *)
(*     while not handler.if_stop():                                        *)
(*         sampled_clients = handler.sample_clients()                      *)
(*         broadcast = handler.downlink_package()                          *)
(*         trainer.local_process(broadcast, sampled_clients)               *)
(*         for pack in trainer.uplink_package(): handler.load(pack)        *)
(* Every step of the loop is the coordinator's or the trainer's action     *)
(* itself, taken at the loop's position.                                   *)

\* The parameter vector as the (opaque) training routine sees it.
AbstractPayload(vector) == IF vector = InitialModel THEN 0 ELSE 1

\* The uplink package of a client task as the coordinator receives it.
ConcretePackage(pack) ==
    Package(<<1 + 2 * (pack.model_parameters % 2)>>, pack.data_size)

InitLoop ==
    /\ num_clients \in 1..MaxClients
    /\ num_clients <= Cardinality(ExecClientIds)
    /\ sample_ratio \in SampleRatios
    /\ global_round \in 1..MaxGlobalRound
    /\ model = InitialModel
    /\ client_buffer_cache = <<>>
    /\ num_clients_per_round = quota_of(num_clients, sample_ratio)
    /\ round = 0
    /\ op = "init" /\ arg = <<>> /\ ret = "none"
    /\ sampled = <<>> /\ downlink = <<>> /\ updArg = <<>>
    /\ pending = <<>> /\ lastRound = <<>>
    /\ AggIdle
    /\ RaceIdle
    /\ kind = "serial"
    /\ epochs \in EpochChoices
    /\ device = "cpu"
    /\ seed = 0
    /\ num_parallels = 0
    /\ rngState \in RngValues
    /\ cache = <<>>
    /\ heap = <<>>
    /\ files = [p \in Paths |-> Absent]
    /\ jobs = <<>>
    /\ eop = <<"init", "init">>
    /\ drained = <<>>
    /\ dispatched = [n |-> 0, tasks |-> 0, payload |-> 0, cid_list |-> <<>>,
                     onEmpty |-> TRUE]
    /\ execHist = [c \in ExecClientIds |-> NoHist]
    /\ driver = [pc |-> "if_stop", cid_list |-> <<>>, payload |-> <<>>,
                 todo |-> <<>>, iterations |-> 0]

\* "while not handler.if_stop()"
loop_if_stop ==
    /\ driver.pc = "if_stop"
    /\ if_stop
    /\ driver' = [driver EXCEPT !.pc = IF ret' = "true" THEN "stopped" ELSE "sample"]

\* "sampled_clients = handler.sample_clients()"
loop_sample_clients ==
    /\ driver.pc = "sample"
    /\ sample_clients
    /\ driver' = [driver EXCEPT !.pc = "downlink", !.cid_list = sampled']

\* "broadcast = handler.downlink_package()"
loop_downlink_package ==
    /\ driver.pc = "downlink"
    /\ downlink_package
    /\ driver' = [driver EXCEPT !.pc = "local_process", !.payload = downlink']

\* "trainer.local_process(broadcast, sampled_clients)"
loop_local_process ==
    /\ driver.pc = "local_process"
    /\ local_process(AbstractPayload(driver.payload), driver.cid_list)
    /\ driver' = [driver EXCEPT !.pc = "uplink"]

\* "trainer.uplink_package()"; an iteration that drained nothing is over.
loop_uplink_package ==
    /\ driver.pc = "uplink"
    /\ uplink_package
    /\ LET package == drained'[Len(drained')]
           todo == [i \in DOMAIN package |-> heap'[package[i]]]
       IN  driver' = [driver EXCEPT
                        !.pc = IF todo = <<>> THEN "if_stop" ELSE "load",
                        !.todo = todo,
                        !.iterations = IF todo = <<>> THEN @ + 1 ELSE @]

\* "handler.load(pack)" for the next drained package; after the last one
\* the iteration is over; an exception ends the loop.
loop_load ==
    /\ driver.pc = "load"
    /\ driver.todo # <<>>
    /\ load(ConcretePackage(Head(driver.todo)))
    /\ driver' = [driver EXCEPT
                    !.pc = IF ret' = "raise" THEN "raised"
                           ELSE IF Tail(driver.todo) = <<>> THEN "if_stop"
                           ELSE "load",
                    !.todo = Tail(driver.todo),
                    !.iterations = IF ret' # "raise" /\ Tail(driver.todo) = <<>>
                                   THEN @ + 1 ELSE @]

NextLoop ==
    \/ loop_if_stop
    \/ loop_sample_clients
    \/ loop_downlink_package
    \/ loop_local_process
    \/ loop_uplink_package
    \/ loop_load

SpecLoop == InitLoop /\ [][NextLoop]_vars

-----------------------------------------------------------------------------
(* SpecFault: the parallel trainer with task faults.  process_client has   *)
(* no exception handler, so whichever of its statements raises ends the    *)
(* task there: torch.load(path), the restore of the snapshot (or the       *)
(* seeding), the training routine, torch.save(package, path) and           *)
(* torch.save(state, data.state_path).  The other tasks of the batch may   *)
(* go on or not.                                                           *)

\* What a torch.save that failed part-way leaves at its path.
Corrupt == [type |-> "corrupt", val |-> <<>>]

\* The statement of process_client a task at position pc is about to run.
statement_at(pc) ==
    CASE pc = "queued"  -> "load"
      [] pc = "loaded"  -> "restore"
      [] pc = "seeded"  -> "train"
      [] pc = "trained" -> "save_package"
      [] pc = "saved"   -> "save_state"

\* The file a failing statement may have started to write.
written_by(job) ==
    CASE job.pc = "trained" -> {job.path}
      [] job.pc = "saved"   -> {job.data.state_path}
      [] OTHER              -> {}

\* process_client, the next statement raises: the task ends without
\* running the statements after it.  A failing torch.save leaves its file
\* as it was or partly written.
process_client_fault(i) ==
    /\ jobs[i].pc \in {"queued", "loaded", "seeded", "trained", "saved"}
    /\ jobs[i].pc = "queued" =>
          Cardinality({j \in DOMAIN jobs : Running(j)}) < num_parallels
    /\ \E partial \in BOOLEAN :
          files' = [p \in Paths |->
                      IF partial /\ p \in written_by(jobs[i])
                      THEN Corrupt ELSE files[p]]
    /\ jobs' = [jobs EXCEPT ![i] =
                  [@ EXCEPT !.pc = "failed",
                            !.ops = Append(@, <<"fault", statement_at(jobs[i].pc)>>)]]
    /\ UNCHANGED <<kind, epochs, seed, device, num_parallels, cache, heap,
                   rngState, eop, drained, dispatched, execHist>>
    /\ UNCHANGED <<coordVars, aggVars, raceVars>>

InitFault ==
    /\ InitExec
    /\ kind = "parallel"

NextFault ==
    \/ \E payload \in ExecPayloads, cid_list \in SampledLists :
          parallel_dispatch(payload, cid_list) /\ UNCHANGED driver
    \/ \E i \in DOMAIN jobs : process_client_load(i) /\ UNCHANGED driver
    \/ \E i \in DOMAIN jobs : process_client_random(i) /\ UNCHANGED driver
    \/ \E i \in DOMAIN jobs : process_client_train(i) /\ UNCHANGED driver
    \/ \E i \in DOMAIN jobs : process_client_save_package(i) /\ UNCHANGED driver
    \/ \E i \in DOMAIN jobs : process_client_save_state(i) /\ UNCHANGED driver
    \/ \E i \in DOMAIN jobs : process_client_fault(i) /\ UNCHANGED driver
    \/ parallel_collect /\ UNCHANGED driver
    \/ uplink_package /\ UNCHANGED driver

SpecFault == InitFault /\ [][NextFault]_vars


-----------------------------------------------------------------------------
(* Exact arithmetic, to state how far a rounded result may lie from the    *)
(* real-valued one.  Scaled(x) is the float x as an integer multiple of    *)
(* 2^-LowExp; no float computed by aggregate on the inputs drawn here has  *)
(* a bit below that.                                                       *)

LowExp == MantBits + 3

Scaled(x) == x[1] * Pow2(x[2] + LowExp)

\* aggregate's preconditions as the specification gives them: lists of
\* equal positive length, tensors of one shape, weights of positive sum.
WellFormedInput ==
    /\ Len(aggParams) = Len(aggWeights)
    /\ Len(aggParams) >= 1
    /\ \A i \in DOMAIN aggParams : Len(aggParams[i]) = Len(aggParams[1])
    /\ SumInts(aggWeights) > 0

\* Coordinate j of the weighted sum over clients 1..i, each operation
\* rounded: sum_i parameters_i[j] * (weight_i / sum of weights).
RECURSIVE WeightedSum(_, _)
WeightedSum(j, i) ==
    IF i = 0 THEN FZero
    ELSE FAdd(WeightedSum(j, i - 1),
              FMul(aggParams[i][j],
                   FDivInt(aggWeights[i], SumInts(aggWeights))))

\* sum_i |parameters_i[j]| * weight_i, in units of 2^-LowExp.
RECURSIVE AbsDot(_, _)
AbsDot(j, i) ==
    IF i = 0 THEN 0
    ELSE AbsDot(j, i - 1) + Abs(Scaled(aggParams[i][j])) * aggWeights[i]

\* sum_i parameters_i[j] * weight_i, in units of 2^-LowExp.
RECURSIVE Dot(_, _)
Dot(j, i) ==
    IF i = 0 THEN 0
    ELSE Dot(j, i - 1) + Scaled(aggParams[i][j]) * aggWeights[i]

\* The exact sum of the rounded normalized weights, in units of 2^-LowExp.
RECURSIVE NormalizedTotal(_)
NormalizedTotal(i) ==
    IF i = 0 THEN 0
    ELSE NormalizedTotal(i - 1)
           + Scaled(FDivInt(aggWeights[i], SumInts(aggWeights)))

\* |x - y| is at most k times the accumulated rounding error of a weighted
\* average of n terms, (n+1) u / (1 - (n+1) u) * sum_i |p_i| w_i / W with
\* u = 2^-MantBits: each term goes through one division, one product and at
\* most n - 1 additions.  x and y are in units of 2^-LowExp / W.
WithinRounding(x, y, k, j) ==
    LET n == Len(aggParams)
    IN  (Pow2(MantBits) - (n + 1)) * Abs(x - y) <= k * (n + 1) * AbsDot(j, n)

-----------------------------------------------------------------------------
(* Claims about aggregate (checked under SpecAgg).                         *)

\* C5: aggregate fails (raises, returning no result) whenever the weights
\* sum to zero or the two lists have different lengths.
C5_AggregateRejectsInvalidInput ==
    (/\ aggOut # NotCalled
     /\ \/ SumInts(aggWeights) = 0
        \/ Len(aggParams) # Len(aggWeights))
    => aggOut = Raised

\* C9: for equal-length non-empty lists with weights of positive sum,
\* aggregate returns, coordinate by coordinate, the sum over i of
\* parameters_i * (weight_i / sum of weights); the normalized weights sum
\* to 1 and the result is the exact weighted average, both up to the
\* rounding of the floating-point operations.
C9_AggregateIsWeightedAverage ==
    (aggOut # NotCalled /\ WellFormedInput) =>
        LET n == Len(aggParams)
            total == SumInts(aggWeights)
        IN  /\ Ok(aggOut)
            /\ DOMAIN aggOut.val = DOMAIN aggParams[1]
            /\ \A j \in DOMAIN aggParams[1] :
                  /\ aggOut.val[j] = WeightedSum(j, n)
                  /\ WithinRounding(Scaled(aggOut.val[j]) * total, Dot(j, n), 1, j)
            /\ Pow2(MantBits) * Abs(NormalizedTotal(n) - Pow2(LowExp))
                  <= Pow2(LowExp)

C9_Witness ==
    /\ WellFormedInput
    /\ Ok(aggOut)
    /\ Len(aggParams) = 3
    /\ Len(aggParams[1]) = 2
    /\ aggParams[1] # aggParams[2]
    /\ aggWeights = <<1, 2, 0>>
    /\ aggOut.val[1] # aggParams[1][1]

\* C10 as stated: the same permutation applied to both lists does not
\* change the result of aggregate.
C10_PermutationSameResult ==
    aggOut2 # NotCalled => aggOut2 = aggOut

\* C10 amended: the permuted call returns like the original one; the two
\* results are equal for lists of at most two elements and whenever one is
\* nan, and otherwise differ by at most twice the accumulated rounding error.
C10_PermutationWithinRounding ==
    aggOut2 # NotCalled =>
        /\ Ok(aggOut2)
        /\ DOMAIN aggOut2.val = DOMAIN aggOut.val
        /\ Len(aggParams) <= 2 => aggOut2 = aggOut
        /\ \A j \in DOMAIN aggOut.val :
              IF IsNaN(aggOut.val[j]) \/ IsNaN(aggOut2.val[j])
              THEN aggOut2.val[j] = aggOut.val[j]
              ELSE WithinRounding(Scaled(aggOut2.val[j]) * SumInts(aggWeights),
                                  Scaled(aggOut.val[j]) * SumInts(aggWeights),
                                  2, j)

C10_Witness ==
    /\ aggOut2 # NotCalled
    /\ Len(aggParams) = 3
    /\ SumInts(aggWeights) > 0
    /\ aggPerm # <<1, 2, 3>>
    /\ aggOut2 # aggOut


-----------------------------------------------------------------------------
(* Claims about the coordinator (checked under Spec).                      *)

ParametersOf(buffer) == [i \in DOMAIN buffer |-> buffer[i].model_parameters]

DataSizesOf(buffer) == [i \in DOMAIN buffer |-> buffer[i].data_size]

\* The parameter tensors of the packages all have one shape.
SameShape(buffer) ==
    \A i, j \in DOMAIN buffer :
        Len(buffer[i].model_parameters) = Len(buffer[j].model_parameters)

C2_BufferBelowQuota ==
    Len(client_buffer_cache) < num_clients_per_round

\* C3: aggregation fires once per block of quota loads: global_update is
\* invoked with exactly the quota packages accepted since the previous
\* aggregation, in load order, and no quota packages stay accepted without
\* an aggregation having completed.
C3_AggregationOncePerRound ==
    /\ num_clients_per_round > 0 => Len(pending) < num_clients_per_round
    /\ (op = "load" /\ updArg # <<>>) =>
          /\ Len(updArg) = num_clients_per_round
          /\ ret = "true" => updArg = lastRound
          /\ ret = "raise" => updArg = pending

\* C4: a load that raises leaves the buffer and round as they were before
\* the call.
C4_FailedLoadLeavesState ==
    [][(op' = "load" /\ ret' = "raise") =>
         /\ client_buffer_cache' = client_buffer_cache
         /\ round' = round]_vars

\* C6: if_stop returns true iff round >= global_round; round never
\* decreases, so once if_stop would return true it does so ever after.
C6_IfStopMonotonic ==
    /\ [](op = "if_stop" => (ret = "true" <=> round >= global_round))
    /\ [][/\ round' >= round
          /\ global_round' = global_round
          /\ round >= global_round => round' >= global_round']_vars

\* if_stop returned true, here after a load made past the last round.
C6_Witness ==
    /\ op = "if_stop"
    /\ ret = "true"
    /\ round > global_round

\* C7: sample_clients returns exactly quota pairwise distinct ids, each in
\* [0, num_clients), in ascending order.
C7_SampleClients ==
    op = "sample_clients" =>
        /\ Len(sampled) = num_clients_per_round
        /\ \A i \in DOMAIN sampled : sampled[i] \in 0..(num_clients - 1)
        /\ \A i, j \in DOMAIN sampled : i < j => sampled[i] < sampled[j]

C7_Witness ==
    /\ op = "sample_clients"
    /\ num_clients = 3
    /\ sampled = <<0, 2>>

\* C8: downlink_package called after a load that returned true (and before
\* any other load) returns aggregate applied to the parameters and data
\* sizes of exactly the quota packages of that round.
C8_DownlinkIsAggregate ==
    (op = "downlink_package" /\ lastRound # <<>>) =>
        LET expected == aggregate(ParametersOf(lastRound), DataSizesOf(lastRound))
        IN  /\ Len(lastRound) = num_clients_per_round
            /\ Ok(expected)
            /\ downlink = expected.val

C8_Witness ==
    /\ op = "downlink_package"
    /\ Len(lastRound) = 3
    /\ \A i \in DOMAIN lastRound : downlink # lastRound[i].model_parameters
    /\ \A j \in DOMAIN downlink : ~IsNaN(downlink[j])

\* C19: the model's parameter vector and round change only in a load that
\* brings the buffer to the quota; a load that returns false appends its
\* payload to the buffer and changes nothing else; sample_clients, if_stop,
\* downlink_package and get_summary leave round, the buffer and the
\* parameter vector unchanged.
C19_OnlyTriggeringLoadChangesModel ==
    [][/\ (model' # model \/ round' # round) =>
            /\ op' = "load"
            /\ ret' = "true"
            /\ Len(client_buffer_cache) + 1 = num_clients_per_round
       /\ (op' = "load" /\ ret' = "false") =>
            /\ client_buffer_cache' = Append(client_buffer_cache, arg')
            /\ UNCHANGED <<model, round, num_clients, sample_ratio,
                           global_round, num_clients_per_round>>
       /\ op' \in {"sample_clients", "if_stop", "downlink_package", "get_summary"} =>
            UNCHANGED <<round, client_buffer_cache, model>>
      ]_vars

\* C19 witness: after a triggering load changed the parameter vector, a
\* load returned false and a read-only method was called, the vector and
\* round being those the triggering load left.
C19_Witness ==
    /\ op = "get_summary"
    /\ round = 1
    /\ model # InitialModel
    /\ Len(client_buffer_cache) = 1
    /\ num_clients_per_round = 2

-----------------------------------------------------------------------------
(* Claims about the client trainers, checked under SpecExec.               *)

Refs(list) == {list[i] : i \in DOMAIN list}

\* C11: uplink_package returns a copy of every package cached since the
\* previous drain, in order, and leaves the cache empty (so a second call
\* in a row returns an empty list); the returned list and packages are new
\* objects, none of them in the cache, and no later step of the trainer
\* changes a list already returned or a package in it.
C11_DrainReturnsCopy ==
    [][/\ drained' # drained =>
            LET r == drained'[Len(drained')]
            IN  /\ Len(drained') = Len(drained) + 1
                /\ Len(r) = Len(cache)
                /\ \A i \in DOMAIN r : heap'[r[i]] = heap[cache[i]]
                /\ \A i, j \in DOMAIN r : r[i] = r[j] => i = j
                /\ Refs(r) \cap (1..Len(heap)) = {}
                /\ cache' = <<>>
                /\ (eop[2] = "uplink_package" => r = <<>>)
       /\ \A k \in DOMAIN drained :
            /\ drained'[k] = drained[k]
            /\ Refs(drained[k]) \cap Refs(cache') = {}
            /\ \A i \in DOMAIN drained[k] :
                 heap'[drained[k][i]] = heap[drained[k][i]]
      ]_vars

\* C11 witness: a parallel trainer drained twice in a row, the first call
\* on a cache holding packages.
C11_Witness ==
    /\ kind = "parallel"
    /\ eop = <<"uplink_package", "uplink_package">>
    /\ Len(drained) = 2
    /\ drained[1] # <<>>
    /\ drained[2] = <<>>
    /\ cache = <<>>

\* The package at reference ref is the one the serial trainer produces for
\* client cid: its data_size counts the client's samples once per epoch
\* and its metadata is the evaluation on the client's validation data.
ProducedFor(ref, cid) ==
    /\ heap[ref].data_size = epochs * TrainSamples[cid + 1]
    /\ heap[ref].metadata = Metadata(evaluate(heap[ref].model_parameters, cid)[1],
                                     evaluate(heap[ref].model_parameters, cid)[2])

\* C12: after the serial trainer's local_process(payload, cid_list) on an
\* empty cache, the cache, and the list the next uplink_package returns,
\* hold one package per element of cid_list, the i-th being the one
\* produced for cid_list[i] (the order of the list, not sorted).
C12_SerialDispatchOrder ==
    (kind = "serial" /\ dispatched.onEmpty) =>
        /\ eop[2] = "local_process" =>
              /\ Len(cache) = Len(dispatched.cid_list)
              /\ \A i \in DOMAIN cache : ProducedFor(cache[i], dispatched.cid_list[i])
        /\ eop = <<"local_process", "uplink_package">> =>
              LET r == drained[Len(drained)]
              IN  /\ Len(r) = Len(dispatched.cid_list)
                  /\ \A i \in DOMAIN r : ProducedFor(r[i], dispatched.cid_list[i])

\* C12 witness: the packages of the unsorted list [1, 0], trained for two
\* epochs, drained.
C12_Witness ==
    /\ kind = "serial"
    /\ epochs = 2
    /\ dispatched.onEmpty
    /\ dispatched.cid_list = <<1, 0>>
    /\ eop = <<"local_process", "uplink_package">>
    /\ Len(drained[Len(drained)]) = 2
    /\ heap[drained[Len(drained)][1]].data_size = 2
    /\ heap[drained[Len(drained)][2]].data_size = 4

\* The operations of a successful process_client, in the order the
\* envelope protocol prescribes.
ProtocolOps(j) ==
    {<<<<"read", j.path>>, second, <<"train", j.cid>>, <<"write", j.path>>,
       <<"write", state_path(j.cid)>>>> :
        second \in {<<"read", state_path(j.cid)>>, <<"seed", seed>>}}

IsPrefixOf(s, t) == Len(s) <= Len(t) /\ \A i \in DOMAIN s : s[i] = t[i]

\* C13: a process_client execution reads the envelope from path, fixes its
\* random state, trains, then overwrites path with the package, then
\* overwrites state_path with the random state left by the training, and
\* returns path.  Until the package is written the file at path holds the
\* envelope; on return it holds the package and the snapshot file holds
\* the post-training random state.
C13_EnvelopeProtocol ==
    \A i \in DOMAIN jobs :
        LET j == jobs[i]
        IN  /\ \E full \in ProtocolOps(j) : IsPrefixOf(j.ops, full)
            /\ j.pc \in {"queued", "loaded", "seeded", "trained"} =>
                  files[j.path].type = "envelope"
            /\ j.pc = "saved" =>
                  /\ Len(j.ops) = 4
                  /\ files[j.path] = PackageFile(j.package)
            /\ j.pc = "done" =>
                  /\ Len(j.ops) = 5
                  /\ j.ret = j.path
                  /\ files[j.path] = PackageFile(j.package)
                  /\ files[j.data.state_path] = StateFile(j.rng)
                  /\ j.data.state_path = state_path(j.cid)

\* C13 witness: a task has returned while another task of the batch is
\* still training.
C13_Witness ==
    \E i, k \in DOMAIN jobs :
        /\ jobs[i].pc = "done"
        /\ jobs[i].ret = share_path(jobs[i].cid)
        /\ files[jobs[i].ret].type = "package"
        /\ jobs[k].pc = "seeded"

\* C14: state_path is a function of the client id only, and when a
\* process_client execution fixes its random state, it seeds a fresh
\* stream from envelope.seed if no execution of that client has completed
\* before, and otherwise restores exactly the snapshot saved by the
\* client's last completed execution.
C14_RandomStreamContinuity ==
    [][\A i \in DOMAIN jobs :
          (i \in DOMAIN jobs' /\ jobs[i].pc = "loaded" /\ jobs'[i].pc = "seeded") =>
              LET c == jobs[i].data.cid
              IN  /\ jobs[i].data.state_path = <<"state", c>>
                  /\ IF execHist[c].count = 0
                     THEN /\ jobs'[i].ops[2] = <<"seed", jobs[i].data.seed>>
                          /\ \A a \in RngValues :
                               jobs'[i].rng = seed_everything(a, jobs[i].data.seed, device)
                     ELSE /\ jobs'[i].ops[2] = <<"read", <<"state", c>>>>
                          /\ jobs'[i].rng = execHist[c].snap
      ]_vars

\* C14 witness: in its second round a client has restored the snapshot of
\* its first execution, which differs from a freshly seeded state.
C14_Witness ==
    \E i \in DOMAIN jobs :
        /\ jobs[i].pc = "seeded"
        /\ dispatched.n = 2
        /\ execHist[jobs[i].cid].count = 1
        /\ jobs[i].rng = execHist[jobs[i].cid].snap
        /\ jobs[i].rng # seed_everything(0, seed, device)

\* The files a task has read or written so far.
PathsTouched(j) ==
    {j.ops[n][2] : n \in {m \in DOMAIN j.ops : j.ops[m][1] \in {"read", "write"}}}

\* C16: the tasks of a round, dispatched for a list returned by
\* sample_clients with envelopes built by get_shared_data, target pairwise
\* distinct clients, envelope paths and snapshot paths, and under every
\* interleaving of the workers no file is read or written by two tasks.
C16_ExclusiveSnapshotPaths ==
    \A i, k \in DOMAIN jobs :
        i # k =>
            /\ jobs[i].cid # jobs[k].cid
            /\ jobs[i].path # jobs[k].path
            /\ state_path(jobs[i].cid) # state_path(jobs[k].cid)
            /\ (jobs[i].pc # "queued" /\ jobs[k].pc # "queued") =>
                  jobs[i].data.state_path # jobs[k].data.state_path
            /\ PathsTouched(jobs[i]) \cap PathsTouched(jobs[k]) = {}

\* C16 witness: two workers run at the same time, each about to write its
\* client's snapshot.
C16_Witness ==
    /\ Len(jobs) = 2
    /\ jobs[1].pc = "saved"
    /\ jobs[2].pc = "saved"
    /\ Cardinality(PathsTouched(jobs[1]) \cup PathsTouched(jobs[2])) = 2

\* C18: the package a worker trains in process_client equals, field by
\* field (parameters, data_size, loss/acc metadata), the package the
\* serial trainer's local_process caches for the same payload and client
\* when it starts from the same random state.
C18_ParallelSameAsSerial ==
    [][\A i \in DOMAIN jobs :
          (i \in DOMAIN jobs' /\ jobs[i].pc = "seeded" /\ jobs'[i].pc = "trained") =>
              LET data == jobs[i].data
                  serial == serial_loop(data.payload, <<data.cid>>, 1,
                                        jobs[i].rng, <<>>).packs[1]
              IN  /\ jobs'[i].package.model_parameters = serial.model_parameters
                  /\ jobs'[i].package.data_size = serial.data_size
                  /\ jobs'[i].package.metadata = serial.metadata
      ]_vars

\* C20: every uplink package a client task produces, in the serial
\* trainer's train or in the parallel trainer's train, carries a positive
\* data_size, whatever the epochs setting and the client's partition.
C20_PositiveSampleCount ==
    /\ \A i \in DOMAIN heap : heap[i].data_size > 0
    /\ \A i \in DOMAIN jobs :
          jobs[i].pc \in {"trained", "saved", "done"} => jobs[i].package.data_size > 0

-----------------------------------------------------------------------------
(* Claims about two independent runs of process_client (SpecDet).          *)

\* C15: when both runs, started without a snapshot from the same envelope
\* on the same device, have returned, the package files are identical
\* (parameters, data_size) and the snapshot files are identical.
C15_ParallelDeterminism ==
    (jobs[1].pc = "done" /\ jobs[2].pc = "done") =>
        /\ files[jobs[1].ret].type = "package"
        /\ files[jobs[1].ret] = files[jobs[2].ret]
        /\ files[jobs[1].data.state_path].type = "state"
        /\ files[jobs[1].data.state_path] = files[jobs[2].data.state_path]

\* C15 witness: both runs have returned, each having seeded its random
\* state and trained for two epochs on a partition that holds samples.
C15_Witness ==
    /\ jobs[1].pc = "done" /\ jobs[2].pc = "done"
    /\ jobs[1].ops[2][1] = "seed" /\ jobs[2].ops[2][1] = "seed"
    /\ epochs = 2
    /\ jobs[1].cid = 0
    /\ files[jobs[1].ret].val.data_size = 4

-----------------------------------------------------------------------------
(* Claims about concurrent callers of load (SpecRace).                     *)

Quiescent == \A t \in Callers : threads[t].pc = "idle"

\* The number of times the package of the n-th load was aggregated.
TimesAggregated(n) ==
    Cardinality({<<k, i>> \in (DOMAIN raceHist.aggregated) \X (1..MaxRaceLoads + 1) :
                    /\ i \in DOMAIN raceHist.aggregated[k]
                    /\ raceHist.aggregated[k][i] = n})

\* Quota detection went wrong: with no call in progress, aggregation has
\* not fired once per quota loads, or a loaded package was aggregated
\* twice, or a loaded package is neither aggregated nor still buffered.
QuotaRaced ==
    /\ Quiescent
    /\ \/ Len(raceHist.aggregated) # raceHist.completed \div num_clients_per_round
       \/ \E n \in 1..raceHist.started : TimesAggregated(n) > 1
       \/ \E n \in 1..raceHist.started :
             /\ TimesAggregated(n) = 0
             /\ \A i \in DOMAIN client_buffer_cache :
                  client_buffer_cache[i].data_size # n

-----------------------------------------------------------------------------
(* Claims about the round loop (SpecLoop).                                 *)

\* C21: the round loop advances round by one per iteration and stops after
\* exactly global_round iterations: whenever it is back at its head after
\* k iterations, round = k <= global_round and the buffer is empty, and
\* when if_stop() has returned true, round = global_round after
\* global_round iterations, for every coordinator that can be constructed.
C21_LoopTerminates ==
    /\ driver.pc = "if_stop" =>
          /\ round = driver.iterations
          /\ round <= global_round
          /\ client_buffer_cache = <<>>
    /\ driver.pc = "stopped" =>
          /\ round = global_round
          /\ driver.iterations = global_round
          /\ client_buffer_cache = <<>>

\* C22: in an iteration of the loop, local_process caches one package per
\* sampled id; the packages drained are as many as the quota; loading them
\* one by one, load returns false for every package but the last and true
\* on the last, which leaves the buffer empty; outside the loads of an
\* iteration no package is buffered.
C22_RoundInStep ==
    /\ [](driver.pc \in {"if_stop", "sample", "downlink", "local_process",
                         "uplink", "stopped"} => client_buffer_cache = <<>>)
    /\ [][/\ (driver.pc = "local_process" /\ driver'.pc = "uplink") =>
               Len(cache') = Len(driver.cid_list)
          /\ (driver.pc = "uplink" /\ driver'.pc # "uplink") =>
               /\ Len(driver'.todo) = Len(driver.cid_list)
               /\ Len(driver'.todo) = num_clients_per_round
          /\ (driver.pc = "load" /\ driver' # driver) =>
               /\ op' = "load"
               /\ ret' = (IF Tail(driver.todo) = <<>> THEN "true" ELSE "false")
               /\ ret' = "true" => client_buffer_cache' = <<>>
         ]_vars

\* C22 witness: a round of two sampled clients completed, the second load
\* having returned true.
C22_Witness ==
    /\ driver.pc = "if_stop"
    /\ driver.iterations = 1
    /\ num_clients_per_round = 2
    /\ Len(driver.cid_list) = 2
    /\ op = "load"
    /\ ret = "true"
    /\ round = 1
    /\ client_buffer_cache = <<>>

-----------------------------------------------------------------------------
(* Claims about task faults (SpecFault).                                   *)

\* The statement at which the task of job j failed, "none" if it did not.
FaultOf(j) ==
    IF j.pc = "failed" THEN j.ops[Len(j.ops)][2] ELSE "none"

\* The snapshot a client's state_path held before its task of the batch.
PreSnapshot(cid) ==
    IF execHist[cid].count = 0 THEN Absent ELSE StateFile(execHist[cid].snap)

\* The envelope the batch's dispatch persisted for a client.
DispatchedEnvelope(cid) ==
    EnvelopeFile(get_shared_data(cid, dispatched.payload))

\* C23 (first part): a task that failed while loading the envelope,
\* restoring the snapshot or training has modified neither the envelope at
\* path nor the snapshot at state_path.
C23_EarlyFaultTouchesNothing ==
    \A i \in DOMAIN jobs :
       FaultOf(jobs[i]) \in {"load", "restore", "train"} =>
          /\ files[jobs[i].path] = DispatchedEnvelope(jobs[i].cid)
          /\ files[state_path(jobs[i].cid)] = PreSnapshot(jobs[i].cid)
          /\ \A k \in DOMAIN jobs[i].ops : jobs[i].ops[k][1] # "write"

\* C23: a task fault inside process_client leaves the persisted artifacts
\* consistent: after a fault while loading, restoring or training neither
\* path nor state_path has been modified, and after no fault does path hold
\* a new UplinkPackage while state_path still holds the pre-task snapshot
\* (or is absent).
C23_FaultLeavesArtifactsConsistent ==
    /\ C23_EarlyFaultTouchesNothing
    /\ \A i \in DOMAIN jobs :
          jobs[i].pc = "failed" =>
             ~ /\ files[jobs[i].path].type = "package"
               /\ files[state_path(jobs[i].cid)] = PreSnapshot(jobs[i].cid)

=============================================================================
